---- MODULE Spec2Model ----
(***************************************************************************)
(* A model of Simple_Excel_Report_Generator.PY: the Data tab (load, sheet  *)
(* selection, filter rows, apply/reset filters), the change notification   *)
(* to the Chart and Report tabs, and chart / report generation and export. *)
(*                                                                         *)
(* Text the user types is a sequence of one-character strings.  A number   *)
(* (a Python float) is a record [nan, neg, fp]: fp is its absolute value   *)
(* in units of 1/FP, so that every decimal of at most MaxValLen characters *)
(* is represented exactly.  An optional value (Python None) is a sequence  *)
(* of length 0 or 1.                                                       *)
(***************************************************************************)
EXTENDS Integers, Sequences, FiniteSets, TLC

\* ---------------------------------------------------------------- bounds
MaxValLen == 4          \* longest text typed into a filter row's value box
MaxFilterRows == 2      \* most filter rows present at once while filtering
MaxRowsAtLoad == 1      \* most filter rows present at once across loads

\* ---------------------------------------------------------------- text
None == <<>>
Some(x) == <<x>>
IsNone(o) == o = <<>>

Digits == {"0", "1", "2", "3", "4", "5", "6", "7", "8", "9"}

DigitVal(c) ==
  CASE c = "0" -> 0 [] c = "1" -> 1 [] c = "2" -> 2 [] c = "3" -> 3
    [] c = "4" -> 4 [] c = "5" -> 5 [] c = "6" -> 6 [] c = "7" -> 7
    [] c = "8" -> 8 [] c = "9" -> 9

DigitChar(d) ==
  CASE d = 0 -> "0" [] d = 1 -> "1" [] d = 2 -> "2" [] d = 3 -> "3"
    [] d = 4 -> "4" [] d = 5 -> "5" [] d = 6 -> "6" [] d = 7 -> "7"
    [] d = 8 -> "8" [] d = 9 -> "9"

\* Code point of a character (the order Python compares strings by).
CharCode(c) ==
  CASE c = " " -> 32 [] c = "'" -> 39 [] c = "-" -> 45 [] c = "." -> 46
    [] c \in Digits -> 48 + DigitVal(c)
    [] c = "a" -> 97 [] c = "b" -> 98 [] c = "n" -> 110

RECURSIVE LexLess(_, _)
\* s < t for Python strings.
LexLess(s, t) ==
  IF t = <<>> THEN FALSE
  ELSE IF s = <<>> THEN TRUE
  ELSE IF s[1] = t[1] THEN LexLess(Tail(s), Tail(t))
  ELSE CharCode(s[1]) < CharCode(t[1])

RECURSIVE lstrip(_)
lstrip(s) == IF s # <<>> /\ s[1] = " " THEN lstrip(Tail(s)) ELSE s

RECURSIVE rstrip(_)
rstrip(s) ==
  IF s # <<>> /\ s[Len(s)] = " " THEN rstrip(SubSeq(s, 1, Len(s) - 1)) ELSE s

\* str.strip(): leading and trailing whitespace removed.
strip(s) == rstrip(lstrip(s))

RECURSIVE Pow10(_)
Pow10(n) == IF n = 0 THEN 1 ELSE 10 * Pow10(n - 1)

\* Fixed-point unit: one more decimal place than any typed value can have.
FP == Pow10(MaxValLen)

RECURSIVE DigitsValue(_)
\* The natural number a sequence of digits denotes (0 for the empty one).
DigitsValue(s) ==
  IF s = <<>> THEN 0
  ELSE 10 * DigitsValue(SubSeq(s, 1, Len(s) - 1)) + DigitVal(s[Len(s)])

RECURSIVE NatToChars(_)
\* str(n) for a natural number.
NatToChars(n) ==
  IF n < 10 THEN <<DigitChar(n)>>
  ELSE NatToChars(n \div 10) \o <<DigitChar(n % 10)>>

NanText == <<"n", "a", "n">>

\* The part of a numeric text after an optional sign.
Unsigned(s) == IF s # <<>> /\ s[1] = "-" THEN Tail(s) ELSE s

DotPositions(s) == {i \in DOMAIN s : s[i] = "."}

\* digits with at most one decimal point and at least one digit
IsDecimal(b) ==
  /\ \A i \in DOMAIN b : b[i] \in Digits \/ b[i] = "."
  /\ Cardinality(DotPositions(b)) <= 1
  /\ \E i \in DOMAIN b : b[i] \in Digits

\* Whether float(s) succeeds (s already stripped), for texts over the
\* characters of CharCode: [-] decimal | [-] nan.  Exponents, "inf", "+"
\* and "_" need characters outside the modelled alphabet.
FloatParses(s) == IsDecimal(Unsigned(s)) \/ Unsigned(s) = NanText

\* float(s), for s with FloatParses(s).
float(s) ==
  LET b == Unsigned(s)
      neg == s # <<>> /\ s[1] = "-"
  IN IF b = NanText THEN [nan |-> TRUE, neg |-> neg, fp |-> 0]
     ELSE LET dots == DotPositions(b)
              d == IF dots = {} THEN Len(b) + 1 ELSE CHOOSE i \in dots : TRUE
              ip == SubSeq(b, 1, d - 1)
              fr == SubSeq(b, d + 1, Len(b))
          IN [nan |-> FALSE, neg |-> neg,
              fp |-> DigitsValue(ip) * FP + DigitsValue(fr) * Pow10(MaxValLen - Len(fr))]

RECURSIVE TrimZeros(_)
TrimZeros(s) ==
  IF Len(s) > 1 /\ s[Len(s)] = "0" THEN TrimZeros(SubSeq(s, 1, Len(s) - 1)) ELSE s

RECURSIVE PadZeros(_, _)
PadZeros(s, n) == IF Len(s) >= n THEN s ELSE PadZeros(<<"0">> \o s, n)

\* repr of a Python float, as an f-string renders it: "3.0", "0.5", "-0.0",
\* "nan".  (Values below 1e-4 or from 1e16 on would use an exponent; none is
\* reachable from MaxValLen + 1 characters.)
FloatRepr(f) ==
  IF f.nan THEN NanText
  ELSE (IF f.neg THEN <<"-">> ELSE <<>>)
         \o NatToChars(f.fp \div FP) \o <<".">>
         \o TrimZeros(PadZeros(NatToChars(f.fp % FP), MaxValLen))

\* ---------------------------------------------------------------- tables
\* A cell: a number (t = "num", n), a string (t = "str", s) or missing ("nan").
NumCell(n) == [t |-> "num", n |-> n, s |-> <<>>]
StrCell(s) == [t |-> "str", n |-> 0, s |-> s]
NaN == [t |-> "nan", n |-> 0, s |-> <<>>]

\* A DataFrame: column labels in order, whether the labels are integers
\* (a sheet whose header cells are numbers), one dtype per column and the
\* rows in order, each with its index label i.
Row(i, cells) == [i |-> i, c |-> cells]

SalesTable ==
  [cols |-> <<"id", "amount">>, int_headers |-> FALSE, dtype |-> <<"int", "int">>,
   rows |-> << Row(0, <<NumCell(1), NumCell(10)>>),
               Row(1, <<NumCell(2), NumCell(20)>>),
               Row(2, <<NumCell(3), NumCell(30)>>) >>]

PeopleTable ==
  [cols |-> <<"name", "amount">>, int_headers |-> FALSE, dtype |-> <<"obj", "float">>,
   rows |-> << Row(0, <<StrCell(<<"a">>), NumCell(10)>>),
               Row(1, <<StrCell(<<"b">>), NaN>>),
               Row(2, <<NaN, NumCell(20)>>) >>]

YearsTable ==
  [cols |-> <<"2019", "2020">>, int_headers |-> TRUE, dtype |-> <<"int", "int">>,
   rows |-> << Row(0, <<NumCell(5), NumCell(6)>>) >>]

\* survey.csv: a has five values, b three (in other rows than a's first
\* three), c none.
SurveyTable ==
  [cols |-> <<"a", "b", "c">>, int_headers |-> FALSE,
   dtype |-> <<"float", "float", "float">>,
   rows |-> << Row(0, <<NumCell(1), NaN, NaN>>),
               Row(1, <<NumCell(2), NumCell(7), NaN>>),
               Row(2, <<NumCell(3), NaN, NaN>>),
               Row(3, <<NumCell(4), NumCell(8), NaN>>),
               Row(4, <<NumCell(5), NumCell(9), NaN>>) >>]

\* notes.csv: text columns only.
NotesTable ==
  [cols |-> <<"note", "tag">>, int_headers |-> FALSE, dtype |-> <<"obj", "obj">>,
   rows |-> << Row(0, <<StrCell(<<"a">>), StrCell(<<"b">>)>>),
               Row(1, <<StrCell(<<"b">>), NaN>>) >>]

\* The files the user can pick in the file dialogs.  A workbook is its
\* sheet names in order; a corrupt file makes the reader raise.
CsvFiles == {"sales.csv", "corrupt.csv"}
ExcelFiles == {"book.xlsx", "corrupt.xlsx"}
MoreCsvFiles == {"survey.csv", "notes.csv"}
Readable(file) == file \in {"sales.csv", "book.xlsx"} \cup MoreCsvFiles
sheet_names(book) == <<"People", "Years">>
SheetTable(name) == IF name = "People" THEN PeopleTable ELSE YearsTable
CsvTable(file) ==
  CASE file = "survey.csv" -> SurveyTable
    [] file = "notes.csv" -> NotesTable
    [] OTHER -> SalesTable

SeqToSet(q) == {q[i] : i \in DOMAIN q}
ColIndex(t, col) == CHOOSE j \in DOMAIN t.cols : t.cols[j] = col
IsNumericDtype(d) == d \in {"int", "float"}

\* ---------------------------------------------------------------- FilterRow
NONE_COL == "(None)"
Operators == {"==", "!=", ">", "<", ">=", "<="}

\* FilterRow.__init__: the column list, no column chosen, the first
\* operator, an empty value box.
FilterRow(columns) == [columns |-> columns, col |-> NONE_COL, op |-> "==", val |-> <<>>]

\* A plausible slip: the value is not stripped before the emptiness test.
get_filter_no_strip(fr) ==
  IF fr.col = NONE_COL \/ fr.val = <<>> THEN None
  ELSE IF FloatParses(strip(fr.val))
       THEN Some([col |-> fr.col, op |-> fr.op, lit |-> FloatRepr(float(strip(fr.val)))])
       ELSE Some([col |-> fr.col, op |-> fr.op, lit |-> <<"'">> \o fr.val \o <<"'">>])

\* FilterRow.get_filter: the condition `col` op literal, or None.  The
\* query string is kept as its three parts; lit is the literal's text.
get_filter(fr) ==
  LET val == strip(fr.val)
  IN IF fr.col = NONE_COL \/ val = <<>> THEN None
     ELSE IF FloatParses(val)
          THEN Some([col |-> fr.col, op |-> fr.op, lit |-> FloatRepr(float(val))])
          ELSE Some([col |-> fr.col, op |-> fr.op, lit |-> <<"'">> \o val \o <<"'">>])

\* ---------------------------------------------------------------- DataFrame.query
\* How the expression evaluator reads a literal's text: a quoted string, a
\* number, or a bare name (nan is not a name the evaluator knows).
ParseLiteral(lit) ==
  IF lit[1] = "'" THEN [kind |-> "str", s |-> SubSeq(lit, 2, Len(lit) - 1), v |-> 0]
  ELSE IF ~IsDecimal(Unsigned(lit)) THEN [kind |-> "name", s |-> <<>>, v |-> 0]
  ELSE LET f == float(lit)
       IN [kind |-> "num", s |-> <<>>, v |-> IF f.neg THEN 0 - f.fp ELSE f.fp]

\* A plausible slip: the operands are compared the other way round.
CompareInt_swapped(op, a, b) ==
  CASE op = "==" -> a = b [] op = "!=" -> a # b [] op = ">" -> b > a
    [] op = "<" -> b < a [] op = ">=" -> b >= a [] op = "<=" -> b <= a

CompareInt(op, a, b) ==
  CASE op = "==" -> a = b [] op = "!=" -> a # b [] op = ">" -> a > b
    [] op = "<" -> a < b [] op = ">=" -> a >= b [] op = "<=" -> a <= b

CompareStr(op, a, b) ==
  CASE op = "==" -> a = b [] op = "!=" -> a # b [] op = ">" -> LexLess(b, a)
    [] op = "<" -> LexLess(a, b) [] op = ">=" -> ~LexLess(a, b)
    [] op = "<=" -> ~LexLess(b, a)

\* Whether evaluating one condition against table t raises: an unknown
\* name, or an ordering comparison between a number and a string.
CondRaises(t, cond) ==
  LET l == ParseLiteral(cond.lit)
  IN \/ l.kind = "name"
     \/ cond.col \notin SeqToSet(t.cols)
     \/ /\ cond.op \notin {"==", "!="}
        /\ IsNumericDtype(t.dtype[ColIndex(t, cond.col)]) # (l.kind = "num")

\* Whether a row passes one condition (which does not raise).  A missing
\* cell passes only !=, like a cell compared with a value of another type.
RowPasses(t, row, cond) ==
  LET l == ParseLiteral(cond.lit)
      cell == row.c[ColIndex(t, cond.col)]
  IN IF cell.t = "nan" \/ (cell.t = "num") # (l.kind = "num") THEN cond.op = "!="
     ELSE IF cell.t = "num" THEN CompareInt(cond.op, cell.n * FP, l.v)
     ELSE CompareStr(cond.op, cell.s, l.s)

\* A plausible slip: the conditions are OR-ed.
query_any(t, conds) ==
  IF \E k \in DOMAIN conds : CondRaises(t, conds[k])
  THEN [exc |-> TRUE, df |-> t]
  ELSE LET Keep(row) == \E k \in DOMAIN conds : RowPasses(t, row, conds[k])
       IN [exc |-> FALSE, df |-> [t EXCEPT !.rows = SelectSeq(@, Keep)]]

\* DataFrame.query(" and ".join(conds)): the rows passing every condition,
\* in order, with their index labels; or an exception.
query(t, conds) ==
  IF \E k \in DOMAIN conds : CondRaises(t, conds[k])
  THEN [exc |-> TRUE, df |-> t]
  ELSE LET Keep(row) == \A k \in DOMAIN conds : RowPasses(t, row, conds[k])
       IN [exc |-> FALSE, df |-> [t EXCEPT !.rows = SelectSeq(@, Keep)]]

\* ---------------------------------------------------------------- state
VARIABLES
  alive,         \* FALSE once an unhandled exception has ended the process
  source_cb,     \* DataTab.source_cb: "Excel" or "CSV"
  excel_file,    \* DataTab.excel_file: None until a workbook was opened
  sheet_items,   \* DataTab.sheet_cb: the sheet names listed
  sheet_idx,     \* DataTab.sheet_cb: the current index (0: no current item)
  original_df,   \* DataTab.original_df
  df,            \* DataTab.df, the view
  table,         \* DataTab.table: the DataFrame it displays, None when cleared
  filter_rows,   \* DataTab.filter_rows
  chart_df,      \* ChartTab.df
  report_df,     \* ReportTab.df
  figure,        \* ChartTab.figure: what is drawn on it
  canvas,        \* ChartTab.canvas: the figure as last rendered on screen
  report_text,   \* ReportTab.report_text
  last           \* the last user action: its name, its input, what it reported

vars == <<alive, source_cb, excel_file, sheet_items, sheet_idx, original_df, df,
          table, filter_rows, chart_df, report_df, figure, canvas, report_text,
          last>>

\* The program's state as one record, plus what the running handler has
\* reported so far: message boxes shown (msgs), exceptions that reached the
\* event loop (uncaught), data_changed emissions (emitted), the content of
\* the file it wrote (wrote), and exc, set while an exception is propagating.
Cur ==
  [source_cb |-> source_cb, excel_file |-> excel_file, sheet_items |-> sheet_items,
   sheet_idx |-> sheet_idx, original_df |-> original_df, df |-> df, table |-> table,
   filter_rows |-> filter_rows, chart_df |-> chart_df, report_df |-> report_df,
   figure |-> figure, canvas |-> canvas, report_text |-> report_text,
   msgs |-> <<>>, uncaught |-> 0, emitted |-> 0, wrote |-> None, exc |-> FALSE]

Outcome(act, arg, s) ==
  [act |-> act, arg |-> arg, msgs |-> s.msgs, uncaught |-> s.uncaught,
   emitted |-> s.emitted, wrote |-> s.wrote]

\* QMessageBox.warning / QMessageBox.information
MessageBox(s, text) == [s EXCEPT !.msgs = Append(@, text)]
raise(s) == [s EXCEPT !.exc = TRUE]
\* except Exception as e: QMessageBox.warning(...)
except(s, text) == [MessageBox(s, text) EXCEPT !.exc = FALSE]
\* An exception leaves a slot: PyQt reports it to sys.excepthook.
unhandled(s) == [s EXCEPT !.exc = FALSE, !.uncaught = @ + 1]

\* ---------------------------------------------------------------- main window
\* A plausible slip: only the chart tab is updated.
on_data_changed_chart_only(s, d) ==
  [s EXCEPT !.chart_df = Some(d), !.emitted = @ + 1]

\* DataInsightStudio.on_data_changed, the slot of DataTab.data_changed, with
\* ChartTab.update_data and ReportTab.update_data.
on_data_changed(s, d) ==
  [s EXCEPT !.chart_df = Some(d), !.report_df = Some(d), !.emitted = @ + 1]

\* ---------------------------------------------------------------- DataTab
\* DataTab.update_table: nothing without a view; otherwise the table is
\* cleared and refilled.  setHorizontalHeaderLabels takes strings only and
\* raises TypeError for integer column labels, after the clear.
update_table(s) ==
  IF IsNone(s.df) THEN s
  ELSE IF s.df[1].int_headers THEN raise([s EXCEPT !.table = None])
  ELSE [s EXCEPT !.table = s.df]

\* str(x) of a cell of a column of the given dtype.
Str(cell, dtype) ==
  IF cell.t = "str" THEN cell.s
  ELSE IF dtype = "float" THEN NatToChars(cell.n) \o <<".", "0">>
  ELSE NatToChars(cell.n)

\* sorted([str(x) for x in t[col].dropna().unique()])[0], the text an
\* emptied editable combo box shows once the items are added; "" when
\* there is none.
FirstDistinct(t, col) ==
  LET j == ColIndex(t, col)
      strs == {Str(t.rows[r].c[j], t.dtype[j]) :
                 r \in {r \in DOMAIN t.rows : t.rows[r].c[j].t # "nan"}}
  IN IF strs = {} THEN <<>>
     ELSE CHOOSE x \in strs : \A y \in strs : x = y \/ LexLess(x, y)

\* DataTab.on_filter_column_changed(fr) for filter row k, whose column box
\* now shows col, with FilterRow.update_values.  original_df[col] raises
\* KeyError for a text that is no column.
on_filter_column_changed(s, k, col) ==
  IF col # NONE_COL /\ ~IsNone(s.original_df)
  THEN IF col \in SeqToSet(s.original_df[1].cols) /\ ~s.original_df[1].int_headers
       THEN [s EXCEPT !.filter_rows[k].val = FirstDistinct(s.original_df[1], col)]
       ELSE unhandled(s)
  ELSE s

\* FilterRow.set_columns on filter row k.  column_cb.clear() leaves the box
\* without a current item and emits currentIndexChanged, so the slot runs
\* with the text ""; addItem("(None)") makes that the current item and
\* emits again.
set_columns(s, k, columns) ==
  LET s1 == on_filter_column_changed([s EXCEPT !.filter_rows[k].col = ""], k, "")
      s2 == on_filter_column_changed([s1 EXCEPT !.filter_rows[k].col = NONE_COL],
                                     k, NONE_COL)
  IN [s2 EXCEPT !.filter_rows[k].columns = columns]

RECURSIVE populate_from(_, _)
populate_from(s, k) ==
  IF k > Len(s.filter_rows) THEN s
  ELSE populate_from(set_columns(s, k, s.df[1].cols), k + 1)

\* DataTab.populate_filter_columns.  (The test at line 205 never holds:
\* set_columns has just made "(None)" the current item.)
populate_filter_columns(s) ==
  IF IsNone(s.df) THEN s ELSE populate_from(s, 1)

\* A plausible slip: original_df is set by the first load only.
load_block_original_once(s, t) ==
  LET s1 == update_table([s EXCEPT !.df = Some(t),
                                   !.original_df = IF IsNone(@) THEN Some(t) ELSE @])
  IN IF s1.exc THEN s1 ELSE on_data_changed(populate_filter_columns(s1), t)

\* The five statements every load ends with (lines 155-159, 166-170 and
\* 179-183), t being the DataFrame just read.
load_block(s, t) ==
  LET s1 == update_table([s EXCEPT !.df = Some(t), !.original_df = Some(t)])
  IN IF s1.exc THEN s1 ELSE on_data_changed(populate_filter_columns(s1), t)

\* DataTab.load_selected_sheet, the slot of sheet_cb.currentIndexChanged.
\* excel_file.parse raises for a name that is no sheet (the text "" of a
\* combo box without a current item).
load_selected_sheet(s) ==
  IF s.source_cb = "Excel" /\ ~IsNone(s.excel_file)
  THEN LET sheet_name == IF s.sheet_idx = 0 THEN "" ELSE s.sheet_items[s.sheet_idx]
           r == IF sheet_name \in SeqToSet(sheet_names(s.excel_file[1]))
                THEN load_block(s, SheetTable(sheet_name))
                ELSE raise(s)
       IN IF r.exc THEN except(r, "Failed to load sheet") ELSE r
  ELSE s

\* DataTab.load_data with the file chosen in the dialog (None: cancelled).
\* sheet_cb.clear() and sheet_cb.addItems() each change the current index
\* and so run load_selected_sheet before load_data goes on.
load_data(s, file) ==
  IF IsNone(file) THEN s
  ELSE IF s.source_cb = "Excel"
  THEN IF ~Readable(file[1]) THEN except(s, "Failed to load Excel file")
       ELSE LET names == sheet_names(file[1])
                s1 == [s EXCEPT !.excel_file = file]
                s2 == IF s1.sheet_items = <<>> THEN s1
                      ELSE load_selected_sheet(
                             [s1 EXCEPT !.sheet_items = <<>>, !.sheet_idx = 0])
                s3 == load_selected_sheet(
                        [s2 EXCEPT !.sheet_items = names, !.sheet_idx = 1])
                r == load_block(s3, SheetTable(names[1]))
            IN IF r.exc THEN except(r, "Failed to load Excel file") ELSE r
  ELSE IF ~Readable(file[1]) THEN except(s, "Failed to load CSV file")
       ELSE LET r == load_block(s, CsvTable(file[1]))
            IN IF r.exc THEN except(r, "Failed to load CSV file") ELSE r

\* DataTab.add_filter_row.  FilterRow(columns) raises TypeError in
\* column_cb.addItems for integer column labels.
add_filter_row(s) ==
  IF IsNone(s.df) THEN MessageBox(s, "Load data first.")
  ELSE IF s.df[1].int_headers THEN unhandled(s)
  ELSE [s EXCEPT !.filter_rows = Append(@, FilterRow(s.df[1].cols))]

RemoveAt(q, k) == SubSeq(q, 1, k - 1) \o SubSeq(q, k + 1, Len(q))

\* DataTab.remove_filter_row
remove_filter_row(s, k) == [s EXCEPT !.filter_rows = RemoveAt(@, k)]

RECURSIVE Conditions(_)
\* the loop of apply_filters: the conditions of the rows that give one
Conditions(rows) ==
  IF rows = <<>> THEN <<>>
  ELSE get_filter(rows[1]) \o Conditions(Tail(rows))

\* What apply_filters and reset_filters end with: update_table, then emit.
show_and_emit(s) ==
  LET s1 == update_table(s)
  IN IF s1.exc THEN unhandled(s1) ELSE on_data_changed(s1, s1.df[1])

\* A plausible slip: the view is narrowed further instead of recomputed.
apply_filters_on_view(s) ==
  IF IsNone(s.original_df) THEN s
  ELSE LET conditions == Conditions(s.filter_rows)
           q == query(s.df[1], conditions)
       IN IF conditions # <<>>
          THEN IF q.exc THEN MessageBox(s, "Failed to apply filters")
               ELSE show_and_emit([s EXCEPT !.df = Some(q.df)])
          ELSE show_and_emit([s EXCEPT !.df = s.original_df])

\* A plausible slip: a failed query empties the view.
apply_filters_clears_on_error(s) ==
  IF IsNone(s.original_df) THEN s
  ELSE LET conditions == Conditions(s.filter_rows)
           q == query(s.original_df[1], conditions)
       IN IF conditions # <<>>
          THEN IF q.exc
               THEN show_and_emit([s EXCEPT !.df =
                                     Some([s.original_df[1] EXCEPT !.rows = <<>>])])
               ELSE show_and_emit([s EXCEPT !.df = Some(q.df)])
          ELSE show_and_emit([s EXCEPT !.df = s.original_df])

\* DataTab.apply_filters
apply_filters(s) ==
  IF IsNone(s.original_df) THEN s
  ELSE LET conditions == Conditions(s.filter_rows)
           q == query(s.original_df[1], conditions)
       IN IF conditions # <<>>
          THEN IF q.exc THEN MessageBox(s, "Failed to apply filters")
               ELSE show_and_emit([s EXCEPT !.df = Some(q.df)])
          ELSE show_and_emit([s EXCEPT !.df = s.original_df])

\* A plausible slip: the filter rows are kept.
reset_filters_keeps_rows(s) ==
  IF IsNone(s.original_df) THEN unhandled(s)
  ELSE LET s1 == update_table([s EXCEPT !.df = s.original_df])
       IN IF s1.exc THEN unhandled(s1) ELSE on_data_changed(s1, s1.df[1])

\* DataTab.reset_filters.  original_df.copy() raises AttributeError while
\* original_df is None.
reset_filters(s) ==
  IF IsNone(s.original_df) THEN unhandled(s)
  ELSE LET s1 == update_table([s EXCEPT !.df = s.original_df])
       IN IF s1.exc THEN unhandled(s1)
          ELSE on_data_changed([s1 EXCEPT !.filter_rows = <<>>], s1.df[1])

\* ---------------------------------------------------------------- ChartTab
\* What a figure holds: nothing (a new or cleared Figure), or one pair of
\* axes with what was drawn on them: the chart's title as (kind, cols), the
\* plotted x and y sequences, the counted values of a bar or pie chart, and
\* the axis labels.
BlankFigure ==
  [axes |-> FALSE, kind |-> "", cols |-> <<>>, x |-> <<>>, y |-> <<>>,
   counts |-> {}, xlabel |-> "", ylabel |-> ""]
EmptyAxes == [BlankFigure EXCEPT !.axes = TRUE]

\* The entries the column selectors offer (update_numeric_columns).
NumericColumns(t) ==
  {t.cols[j] : j \in {j \in DOMAIN t.cols : IsNumericDtype(t.dtype[j])}}

\* df[col].dropna(): the present cells of a column in row order, each with
\* its index label.
dropna(t, col) ==
  LET j == ColIndex(t, col)
      present == SelectSeq(t.rows, LAMBDA r : r.c[j].t # "nan")
  IN [k \in DOMAIN present |-> [i |-> present[k].i, v |-> present[k].c[j].n]]

Values(data) == [k \in DOMAIN data |-> data[k].v]
Labels(data) == [k \in DOMAIN data |-> data[k].i]

\* Series.value_counts() as the set of (value, count) pairs.
value_counts(data) ==
  {<<v, Cardinality({k \in DOMAIN data : data[k].v = v})>> :
     v \in {data[k].v : k \in DOMAIN data}}

\* text if text else default
OrDefault(text, default) == IF text # "" THEN text ELSE default

\* The Single Numeric Column branch of generate_chart, after the axes
\* were added (lines 385-414).
single_chart(s, chart_type, col, xl, yl) ==
  IF col = NONE_COL THEN MessageBox(s, "Select a numeric column for charting.")
  ELSE LET data == dropna(s.chart_df[1], col)
           base == [EmptyAxes EXCEPT !.kind = chart_type, !.cols = <<col>>]
           fig ==
             CASE chart_type = "Histogram" ->
                    [base EXCEPT !.y = Values(data), !.xlabel = OrDefault(xl, col),
                                 !.ylabel = OrDefault(yl, "Frequency")]
               [] chart_type = "Bar Chart" ->
                    [base EXCEPT !.counts = value_counts(data),
                                 !.xlabel = OrDefault(xl, col),
                                 !.ylabel = OrDefault(yl, "Count")]
               [] chart_type = "Line Chart" ->
                    [base EXCEPT !.x = Labels(data), !.y = Values(data),
                                 !.xlabel = OrDefault(xl, "Index"),
                                 !.ylabel = OrDefault(yl, col)]
               [] chart_type = "Pie Chart" ->
                    [base EXCEPT !.counts = value_counts(data)]
       IN IF data = <<>> THEN MessageBox(s, "No data in selected column.")
          ELSE [s EXCEPT !.figure = fig, !.canvas = fig]

Min(a, b) == IF a < b THEN a ELSE b

\* A plausible slip: the rows where either column is missing are dropped,
\* so that the values are paired by row.
xy_chart_aligned(s, chart_type, x_col, y_col, xl, yl) ==
  IF x_col = NONE_COL \/ y_col = NONE_COL
  THEN MessageBox(s, "Select numeric columns for both X and Y.")
  ELSE LET t == s.chart_df[1]
           both == SelectSeq(t.rows, LAMBDA r : /\ r.c[ColIndex(t, x_col)].t # "nan"
                                                /\ r.c[ColIndex(t, y_col)].t # "nan")
           fig == [EmptyAxes EXCEPT !.kind = chart_type, !.cols = <<x_col, y_col>>,
                     !.x = [k \in DOMAIN both |-> both[k].c[ColIndex(t, x_col)].n],
                     !.y = [k \in DOMAIN both |-> both[k].c[ColIndex(t, y_col)].n],
                     !.xlabel = OrDefault(xl, x_col),
                     !.ylabel = OrDefault(yl, y_col)]
       IN IF both = <<>> THEN MessageBox(s, "No data in selected columns.")
          ELSE [s EXCEPT !.figure = fig, !.canvas = fig]

\* The XY Chart branch of generate_chart (lines 416-437).
xy_chart(s, chart_type, x_col, y_col, xl, yl) ==
  IF x_col = NONE_COL \/ y_col = NONE_COL
  THEN MessageBox(s, "Select numeric columns for both X and Y.")
  ELSE LET x_data == dropna(s.chart_df[1], x_col)
           y_data == dropna(s.chart_df[1], y_col)
           min_len == Min(Len(x_data), Len(y_data))
           fig == [EmptyAxes EXCEPT !.kind = chart_type, !.cols = <<x_col, y_col>>,
                                    !.x = SubSeq(Values(x_data), 1, min_len),
                                    !.y = SubSeq(Values(y_data), 1, min_len),
                                    !.xlabel = OrDefault(xl, x_col),
                                    !.ylabel = OrDefault(yl, y_col)]
       IN IF x_data = <<>> \/ y_data = <<>>
          THEN MessageBox(s, "No data in selected columns.")
          ELSE [s EXCEPT !.figure = fig, !.canvas = fig]

SingleTypes == {"Histogram", "Bar Chart", "Line Chart", "Pie Chart"}
XYTypes == {"Scatter Plot", "Line Chart"}

\* ChartTab.generate_chart with the selections of the controls.  The figure
\* is cleared and given new axes before the selections are looked at; the
\* canvas is redrawn only when a chart was drawn.
generate_chart(s, mode, chart_type, col, x_col, y_col, xl, yl) ==
  IF IsNone(s.chart_df) THEN MessageBox(s, "Load data first.")
  ELSE LET s1 == [s EXCEPT !.figure = EmptyAxes]
       IN IF mode = "Single Numeric Column"
          THEN single_chart(s1, chart_type, col, xl, yl)
          ELSE xy_chart(s1, chart_type, x_col, y_col, xl, yl)

\* ChartTab.export_chart with the path chosen (None: cancelled): savefig
\* writes the figure as it is, or raises for a path that cannot be written.
export_chart(s, path) ==
  IF IsNone(path) THEN s
  ELSE IF path[1] = "unwritable" THEN except(s, "Failed to export chart")
  ELSE MessageBox([s EXCEPT !.wrote = Some(s.figure)],
                  "Chart exported successfully.")

\* ---------------------------------------------------------------- ReportTab
RECURSIVE SumSeq(_)
SumSeq(q) == IF q = <<>> THEN 0 ELSE q[1] + SumSeq(Tail(q))

\* One column of DataFrame.describe(): count, mean (in units of 1/FP), min
\* and max; the three are missing (None) for a column without values.  The
\* standard deviation and the quartiles are not represented.
describe(t, col) ==
  LET v == Values(dropna(t, col))
  IN IF v = <<>> THEN [col |-> col, count |-> 0, mean |-> None, min |-> None, max |-> None]
     ELSE [col |-> col, count |-> Len(v),
           mean |-> Some((SumSeq(v) * FP) \div Len(v)),
           min |-> Some(CHOOSE m \in SeqToSet(v) : \A w \in SeqToSet(v) : m <= w),
           max |-> Some(CHOOSE m \in SeqToSet(v) : \A w \in SeqToSet(v) : m >= w)]

\* df.select_dtypes(include=['number']).columns, in column order
numeric_cols(t) == SelectSeq(t.cols, LAMBDA c : IsNumericDtype(t.dtype[ColIndex(t, c)]))

\* The summary every report is built from: the record count, the column
\* names, and the statistics of the numeric columns (an empty sequence when
\* there is none).
Summary(t) ==
  [total |-> Len(t.rows), columns |-> t.cols,
   stats |-> [k \in DOMAIN numeric_cols(t) |-> describe(t, numeric_cols(t)[k])]]

\* The report text: its first line and, for a report, the summary the
\* other lines render (notice: "No numeric columns found." replaces the
\* statistics).
NoText == [head |-> "", body |-> None]

\* ReportTab.generate_report
generate_report(s) ==
  IF IsNone(s.report_df) THEN [s EXCEPT !.report_text = [head |-> "No data loaded.", body |-> None]]
  ELSE LET sm == Summary(s.report_df[1])
       IN [s EXCEPT !.report_text =
             [head |-> "Report Summary:",
              body |-> Some([total |-> sm.total, columns |-> sm.columns,
                             stats |-> sm.stats, notice |-> sm.stats = <<>>])]]

\* A plausible slip: the PDF is written outside the try block.
export_report_pdf_unguarded(s, path) ==
  IF IsNone(s.report_df) THEN MessageBox(s, "No data to export.")
  ELSE IF IsNone(path) THEN s
  ELSE IF path[1] = "unwritable" THEN unhandled(s)
  ELSE MessageBox([s EXCEPT !.wrote = Some(Summary(s.report_df[1]))],
                  "Report exported as PDF successfully.")

\* ReportTab.export_report_pdf with the path chosen (None: cancelled).
export_report_pdf(s, path) ==
  IF IsNone(s.report_df) THEN MessageBox(s, "No data to export.")
  ELSE IF IsNone(path) THEN s
  ELSE IF path[1] = "unwritable" THEN except(s, "Failed to export report as PDF")
  ELSE MessageBox([s EXCEPT !.wrote = Some(Summary(s.report_df[1]))],
                  "Report exported as PDF successfully.")

\* ReportTab.export_report_excel with the path chosen (None: cancelled):
\* the sheets Data, Summary and, with numeric columns, Numeric Statistics.
export_report_excel(s, path) ==
  IF IsNone(s.report_df) THEN MessageBox(s, "No data to export.")
  ELSE IF IsNone(path) THEN s
  ELSE IF path[1] = "unwritable" THEN except(s, "Failed to export report as Excel")
  ELSE MessageBox([s EXCEPT !.wrote =
                     Some([data |-> s.report_df[1], summary |-> Summary(s.report_df[1])])],
                  "Report exported as Excel successfully.")

\* ---------------------------------------------------------------- actions
NoAction ==
  [act |-> "start", arg |-> None, msgs |-> <<>>, uncaught |-> 0, emitted |-> 0,
   wrote |-> None]

\* The window as constructed: no data, no filter rows, Excel selected.
Init ==
  /\ alive = TRUE
  /\ source_cb = "Excel"
  /\ excel_file = None
  /\ sheet_items = <<>>
  /\ sheet_idx = 0
  /\ original_df = None
  /\ df = None
  /\ table = None
  /\ filter_rows = <<>>
  /\ chart_df = None
  /\ report_df = None
  /\ figure = BlankFigure
  /\ canvas = BlankFigure
  /\ report_text = NoText
  /\ last = NoAction

\* The end of a handler that left the program in state r.  An exception
\* that reached the event loop either ended the process (PyQt5 from 5.5 on
\* aborts unless an excepthook is installed) or was only printed.
Done(act, arg, r) ==
  /\ alive' \in (IF r.uncaught > 0 THEN {TRUE, FALSE} ELSE {TRUE})
  /\ last' = Outcome(act, arg, r)
  /\ IF alive'
     THEN /\ source_cb' = r.source_cb
          /\ excel_file' = r.excel_file
          /\ sheet_items' = r.sheet_items
          /\ sheet_idx' = r.sheet_idx
          /\ original_df' = r.original_df
          /\ df' = r.df
          /\ table' = r.table
          /\ filter_rows' = r.filter_rows
          /\ chart_df' = r.chart_df
          /\ report_df' = r.report_df
          /\ figure' = r.figure
          /\ canvas' = r.canvas
          /\ report_text' = r.report_text
     ELSE UNCHANGED <<source_cb, excel_file, sheet_items, sheet_idx, original_df, df,
                      table, filter_rows, chart_df, report_df, figure, canvas,
                      report_text>>

\* The user picks the other data source (update_source_ui shows or hides
\* the sheet selector).
ChangeSource ==
  /\ alive
  /\ Done("source", None,
          [Cur EXCEPT !.source_cb = IF @ = "Excel" THEN "CSV" ELSE "Excel"])

\* The user presses Load Data and picks a file, or cancels the dialog.
LoadData(file) ==
  /\ alive
  /\ Done("load", file, load_data(Cur, file))

\* The user picks another sheet in the (visible) sheet selector.
SelectSheet(k) ==
  /\ alive
  /\ source_cb = "Excel"
  /\ k \in DOMAIN sheet_items
  /\ k # sheet_idx
  /\ Done("sheet", Some(k), load_selected_sheet([Cur EXCEPT !.sheet_idx = k]))

AddFilterRow(max) ==
  /\ alive
  /\ Len(filter_rows) < max
  /\ Done("add", None, add_filter_row(Cur))

RemoveFilterRow(k) ==
  /\ alive
  /\ k \in DOMAIN filter_rows
  /\ Done("remove", None, remove_filter_row(Cur, k))

\* The user picks another entry of row k's column selector.
SetFilterColumn(k, col) ==
  /\ alive
  /\ k \in DOMAIN filter_rows
  /\ col \in SeqToSet(filter_rows[k].columns) \cup {NONE_COL}
  /\ col # filter_rows[k].col
  /\ Done("column", None,
          on_filter_column_changed([Cur EXCEPT !.filter_rows[k].col = col], k, col))

SetFilterOperator(k, op) ==
  /\ alive
  /\ k \in DOMAIN filter_rows
  /\ op # filter_rows[k].op
  /\ Done("operator", None, [Cur EXCEPT !.filter_rows[k].op = op])

\* The user types into row k's value box.
SetFilterValue(k, val) ==
  /\ alive
  /\ k \in DOMAIN filter_rows
  /\ val # filter_rows[k].val
  /\ Done("value", None, [Cur EXCEPT !.filter_rows[k].val = val])

\* Row k is asked for its condition, as apply_filters asks every row.
GetFilter(k) ==
  /\ alive
  /\ k \in DOMAIN filter_rows
  /\ Done("get_filter", get_filter(filter_rows[k]), Cur)

\* What apply and reset are recorded with: the number of filter rows,
\* whether the view differed from the original, whether the table showed a
\* dataset and how many rows the view had when the button was pressed.
Before ==
  Some([rows |-> Len(filter_rows), narrowed |-> df # original_df,
        shown |-> ~IsNone(table),
        size |-> IF IsNone(df) THEN 0 ELSE Len(df[1].rows)])

ApplyFilters ==
  /\ alive
  /\ Done("apply", Before, apply_filters(Cur))

ResetFilters ==
  /\ alive
  /\ Done("reset", Before, reset_filters(Cur))

\* The entries a chart column selector offers.
ColumnChoices ==
  {NONE_COL} \cup (IF IsNone(chart_df) THEN {} ELSE NumericColumns(chart_df[1]))

\* The user presses Generate Chart; the action is recorded with the
\* selections of the controls.
GenerateChart(mode, chart_type, col, x_col, y_col, xl, yl) ==
  /\ alive
  /\ Done("chart",
          Some([mode |-> mode, chart_type |-> chart_type, col |-> col,
                x_col |-> x_col, y_col |-> y_col]),
          generate_chart(Cur, mode, chart_type, col, x_col, y_col, xl, yl))

ExportChart(path) ==
  /\ alive
  /\ Done("export_chart", path, export_chart(Cur, path))

GenerateReport ==
  /\ alive
  /\ Done("report", None, generate_report(Cur))

ExportReportPdf(path) ==
  /\ alive
  /\ Done("export_pdf", path, export_report_pdf(Cur, path))

ExportReportExcel(path) ==
  /\ alive
  /\ Done("export_excel", path, export_report_excel(Cur, path))

FilesOffered == IF source_cb = "Excel" THEN ExcelFiles ELSE CsvFiles
Picked(S) == {None} \cup {Some(x) : x \in S}
AllColumns == {NONE_COL, "id", "amount", "name"}

\* ---------------------------------------------------------------- Spec
\* The Data tab: loading, sheet selection, filter rows, apply and reset.
\* The user keeps up to MaxRowsAtLoad filter rows and edits them with two of
\* the operators and one typed value (besides the values a column choice
\* fills in).
AppOperators == {"==", ">"}
AppValues == {<<"1", "5">>}

Next ==
  \/ ChangeSource
  \/ \E file \in Picked(FilesOffered) : LoadData(file)
  \/ \E k \in 1..2 : SelectSheet(k)
  \/ AddFilterRow(MaxRowsAtLoad)
  \/ \E k \in 1..MaxRowsAtLoad : RemoveFilterRow(k)
  \/ \E k \in 1..MaxRowsAtLoad, col \in AllColumns : SetFilterColumn(k, col)
  \/ \E k \in 1..MaxRowsAtLoad, op \in AppOperators : SetFilterOperator(k, op)
  \/ \E k \in 1..MaxRowsAtLoad, val \in AppValues : SetFilterValue(k, val)
  \/ ApplyFilters
  \/ ResetFilters

Spec == Init /\ [][Next]_vars

\* ---------------------------------------------------------------- SpecFilter
\* Filtering a loaded dataset: the window after sales.csv (CSV) or
\* book.xlsx (Excel, first sheet) was loaded, then filter rows edited with
\* all six operators, applied and reset.
LoadedFrom(file) ==
  /\ alive = TRUE
  /\ source_cb = (IF file \in ExcelFiles THEN "Excel" ELSE "CSV")
  /\ excel_file = (IF file \in ExcelFiles THEN Some(file) ELSE None)
  /\ sheet_items = (IF file \in ExcelFiles THEN sheet_names(file) ELSE <<>>)
  /\ sheet_idx = (IF file \in ExcelFiles THEN 1 ELSE 0)
  /\ original_df = Some(IF file \in ExcelFiles THEN SheetTable(sheet_names(file)[1])
                         ELSE CsvTable(file))
  /\ df = original_df
  /\ table = original_df
  /\ chart_df = original_df
  /\ report_df = original_df
  /\ figure = BlankFigure
  /\ canvas = BlankFigure
  /\ report_text = NoText
  /\ last = [act |-> "load", arg |-> Some(file), msgs |-> <<>>, uncaught |-> 0,
             emitted |-> (IF file \in ExcelFiles THEN 2 ELSE 1), wrote |-> None]

InitFilter ==
  /\ \E file \in {"sales.csv", "book.xlsx"} : LoadedFrom(file)
  /\ filter_rows = <<>>

FilterValues == {<<"1", "5">>, <<"b">>, <<" ">>}

NextFilter ==
  \/ AddFilterRow(MaxFilterRows)
  \/ \E k \in 1..MaxFilterRows : RemoveFilterRow(k)
  \/ \E k \in 1..MaxFilterRows, col \in AllColumns : SetFilterColumn(k, col)
  \/ \E k \in 1..MaxFilterRows, op \in Operators : SetFilterOperator(k, op)
  \/ \E k \in 1..MaxFilterRows, val \in FilterValues : SetFilterValue(k, val)
  \/ ApplyFilters
  \/ ResetFilters

SpecFilter == InitFilter /\ [][NextFilter]_vars

\* ---------------------------------------------------------------- SpecOutput
\* Loading, then charts, reports and exports of what was loaded.
Paths == {"out", "unwritable"}
LabelTexts == {"", "units"}

NextOutput ==
  \/ ChangeSource
  \/ \E file \in Picked(FilesOffered) : LoadData(file)
  \/ \E k \in 1..2 : SelectSheet(k)
  \/ \E chart_type \in SingleTypes, col \in ColumnChoices, xl \in LabelTexts :
       GenerateChart("Single Numeric Column", chart_type, col, NONE_COL, NONE_COL, xl, "")
  \/ \E chart_type \in XYTypes, x_col \in ColumnChoices, y_col \in ColumnChoices :
       GenerateChart("XY Chart", chart_type, NONE_COL, x_col, y_col, "", "")
  \/ \E path \in Picked(Paths) : ExportChart(path)
  \/ GenerateReport
  \/ \E path \in Picked(Paths) : ExportReportPdf(path)
  \/ \E path \in Picked(Paths) : ExportReportExcel(path)

SpecOutput == Init /\ [][NextOutput]_vars

\* ---------------------------------------------------------------- SpecGetFilter
\* get_filter on every text of at most MaxValLen of these characters: the
\* window after sales.csv was loaded, with one filter row filled in.
TypedChars == {" ", "-", ".", "0", "3", "a", "n"}
Texts == UNION {[1..n -> TypedChars] : n \in 0..MaxValLen}

InitGetFilter ==
  /\ LoadedFrom("sales.csv")
  /\ \E col \in {NONE_COL, "amount"}, op \in Operators, val \in Texts :
       filter_rows = <<[columns |-> SalesTable.cols, col |-> col, op |-> op, val |-> val]>>

NextGetFilter ==
  \/ GetFilter(1)
  \/ ApplyFilters

SpecGetFilter == InitGetFilter /\ [][NextGetFilter]_vars

\* ---------------------------------------------------------------- SpecEndToEnd
\* From the window as constructed: loading, one or more filter rows edited
\* as in Spec, apply, and the on-screen report of the view.
NextEndToEnd ==
  \/ ChangeSource
  \/ \E file \in Picked(FilesOffered) : LoadData(file)
  \/ AddFilterRow(MaxRowsAtLoad)
  \/ \E k \in 1..MaxRowsAtLoad, col \in AllColumns : SetFilterColumn(k, col)
  \/ \E k \in 1..MaxRowsAtLoad, op \in AppOperators : SetFilterOperator(k, op)
  \/ \E k \in 1..MaxRowsAtLoad, val \in AppValues : SetFilterValue(k, val)
  \/ ApplyFilters
  \/ GenerateReport

SpecEndToEnd == Init /\ [][NextEndToEnd]_vars

\* ---------------------------------------------------------------- SpecCharts
\* Charts, reports and exports of a loaded dataset: survey.csv (numeric
\* columns with different numbers of missing values), notes.csv (no numeric
\* column) or the first sheet of book.xlsx (a text and a numeric column).
InitCharts ==
  /\ \E file \in MoreCsvFiles \cup {"book.xlsx"} : LoadedFrom(file)
  /\ filter_rows = <<>>

NextCharts ==
  \/ \E chart_type \in SingleTypes, col \in ColumnChoices, xl \in LabelTexts :
       GenerateChart("Single Numeric Column", chart_type, col, NONE_COL, NONE_COL, xl, "")
  \/ \E chart_type \in XYTypes, x_col \in ColumnChoices, y_col \in ColumnChoices :
       GenerateChart("XY Chart", chart_type, NONE_COL, x_col, y_col, "", "")
  \/ \E path \in Picked(Paths) : ExportChart(path)
  \/ GenerateReport
  \/ \E path \in Picked(Paths) : ExportReportPdf(path)
  \/ \E path \in Picked(Paths) : ExportReportExcel(path)

SpecCharts == InitCharts /\ [][NextCharts]_vars

\* ---------------------------------------------------------------- properties
Has(msgs, text) == \E k \in DOMAIN msgs : msgs[k] = text

\* v has the columns of o and its rows are rows of o, in o's order.
PositionIn(o, row) == CHOOSE j \in DOMAIN o.rows : o.rows[j] = row
RowSubset(v, o) ==
  /\ v.cols = o.cols
  /\ v.dtype = o.dtype
  /\ \A k \in DOMAIN v.rows : \E j \in DOMAIN o.rows : o.rows[j] = v.rows[k]
  /\ \A k, l \in DOMAIN v.rows :
       k < l => PositionIn(o, v.rows[k]) < PositionIn(o, v.rows[l])

\* A filter row that states a condition: a column is chosen and the value
\* is not blank.
Active(fr) == fr.col # NONE_COL /\ \E i \in DOMAIN fr.val : fr.val[i] # " "

\* The table a load that went through has read.
TableRead ==
  IF last.act = "sheet" THEN SheetTable(sheet_items[last.arg[1]])
  ELSE IF last.arg[1] \in ExcelFiles THEN SheetTable(sheet_names(last.arg[1])[1])
  ELSE CsvTable(last.arg[1])

\* The last action was a load or a sheet selection that read a table and
\* reported no failure of its own.
LoadWentThrough ==
  \/ /\ last.act = "load"
     /\ ~IsNone(last.arg)
     /\ ~Has(last.msgs, "Failed to load Excel file")
     /\ ~Has(last.msgs, "Failed to load CSV file")
  \/ /\ last.act = "sheet"
     /\ ~Has(last.msgs, "Failed to load sheet")

\* The last action was a load, apply or reset that ran to its end.
Succeeded ==
  \/ LoadWentThrough
  \/ last.act = "apply" /\ last.msgs = <<>> /\ last.uncaught = 0
  \/ last.act = "reset" /\ last.uncaught = 0

\* C1: whenever a dataset is loaded, the view has the columns of the
\* original and its rows are rows of the original, in the original's order.
C1_ViewIsRowSubset ==
  ~IsNone(original_df) => ~IsNone(df) /\ RowSubset(df[1], original_df[1])

\* An apply has narrowed the view to some, not all, rows of the original.
C1_Witness ==
  /\ last.act = "apply"
  /\ ~IsNone(df)
  /\ Len(df[1].rows) > 0
  /\ Len(df[1].rows) < Len(original_df[1].rows)

\* C2: after an apply that raised nothing, the view holds exactly the rows
\* of the original that pass the condition of every active filter row, in
\* the original's order.
C2_ViewIsConjunction ==
  (alive /\ last.act = "apply" /\ last.msgs = <<>> /\ ~IsNone(original_df)) =>
    /\ df[1].cols = original_df[1].cols
    /\ df[1].rows =
         SelectSeq(original_df[1].rows,
                   LAMBDA row : \A k \in DOMAIN filter_rows :
                      Active(filter_rows[k]) =>
                        RowPasses(original_df[1], row, get_filter(filter_rows[k])[1]))

\* Two active rows were applied, each of which alone lets through a row the
\* other one stops, and some row passed both.
C2_Witness ==
  /\ alive /\ last.act = "apply" /\ last.msgs = <<>>
  /\ Len(filter_rows) = 2
  /\ Active(filter_rows[1]) /\ Active(filter_rows[2])
  /\ Len(df[1].rows) > 0
  /\ \E r \in DOMAIN original_df[1].rows :
       /\ RowPasses(original_df[1], original_df[1].rows[r], get_filter(filter_rows[1])[1])
       /\ ~RowPasses(original_df[1], original_df[1].rows[r], get_filter(filter_rows[2])[1])
  /\ \E r \in DOMAIN original_df[1].rows :
       /\ RowPasses(original_df[1], original_df[1].rows[r], get_filter(filter_rows[2])[1])
       /\ ~RowPasses(original_df[1], original_df[1].rows[r], get_filter(filter_rows[1])[1])

\* C3: a filter row without a column or with a blank value restricts
\* nothing: the view an apply produces is the one the active rows alone
\* produce, and with no active row it is the original.
C3_InertRows ==
  (alive /\ last.act = "apply" /\ ~IsNone(original_df)) =>
    LET active == SelectSeq(filter_rows, Active)
    IN /\ active = <<>> => df = original_df /\ last.msgs = <<>>
       /\ last.msgs = <<>> /\ active # <<>> =>
            df[1] = query(original_df[1], Conditions(active)).df

\* An apply over a row with a column and a blank value and a row with a
\* value and no column brought a narrowed view back to the original.
C3_Witness ==
  /\ alive /\ last.act = "apply"
  /\ last.arg[1].narrowed
  /\ df = original_df
  /\ \E k \in DOMAIN filter_rows :
       filter_rows[k].col # NONE_COL /\ filter_rows[k].val = <<" ">>
  /\ \E k \in DOMAIN filter_rows :
       filter_rows[k].col = NONE_COL /\ filter_rows[k].val # <<>>

\* Evaluating the conditions of the filter rows raises.
ApplyRaises ==
  /\ ~IsNone(original_df)
  /\ \E k \in DOMAIN filter_rows :
       /\ Active(filter_rows[k])
       /\ CondRaises(original_df[1], get_filter(filter_rows[k])[1])

\* C4: an apply whose conditions fail to evaluate leaves the view, the
\* original and the consumers' copies as they were, shows the failure
\* once and emits no change notification.
C4_FailedApplyKeepsView ==
  [][(last'.act = "apply" /\ ApplyRaises) =>
       /\ alive'
       /\ df' = df
       /\ original_df' = original_df
       /\ chart_df' = chart_df
       /\ report_df' = report_df
       /\ last'.msgs = <<"Failed to apply filters">>
       /\ last'.emitted = 0
       /\ last'.uncaught = 0]_vars

\* A failed apply left a narrowed view in place.
C4_Witness ==
  /\ last.act = "apply"
  /\ last.msgs = <<"Failed to apply filters">>
  /\ last.arg[1].narrowed
  /\ df # original_df

\* C5: after a load that went through, the original is the table read, the
\* view equals it and no filter row is left.
C5_LoadClearsFilters ==
  (alive /\ LoadWentThrough) =>
    /\ original_df = Some(TableRead)
    /\ df = original_df
    /\ filter_rows = <<>>

C7_ConsumersHaveView ==
  (alive /\ Succeeded) => chart_df = df /\ report_df = df

\* An apply narrowed the view and the consumers hold the narrowed view.
C7_Witness ==
  /\ alive /\ Succeeded
  /\ last.act = "apply"
  /\ df # original_df
  /\ chart_df = df

\* The last action reported a failure of its own.
FailureReported ==
  \E k \in DOMAIN last.msgs :
    last.msgs[k] \in {"Failed to load Excel file", "Failed to load CSV file",
                      "Failed to load sheet", "Failed to apply filters",
                      "Failed to export chart", "Failed to export report as PDF",
                      "Failed to export report as Excel"}

\* C8: an action that reports a failure leaves the original, the view, the
\* filter rows, the sheet list and the consumers' copies as they were.
C8_FailureLeavesState ==
  [][FailureReported' =>
       UNCHANGED <<original_df, df, filter_rows, sheet_items, chart_df, report_df>>]_vars

OutputActions == {"chart", "report", "export_chart", "export_pdf", "export_excel"}

\* C9: no chart, report or export action changes the view or the original
\* or lets an exception escape, and an export to a path that cannot be
\* written shows its failure message and writes nothing.
C9_OutputsLeaveData ==
  [][last'.act \in OutputActions =>
       /\ alive'
       /\ last'.uncaught = 0
       /\ df' = df
       /\ original_df' = original_df
       /\ (last'.act # "chart" /\ last'.arg = Some("unwritable")
             /\ (last'.act = "export_chart" \/ ~IsNone(report_df))) =>
            /\ Len(last'.msgs) = 1
            /\ FailureReported'
            /\ last'.wrote = None]_vars

\* A PDF export to an unwritable path failed with data loaded.
C9_Witness ==
  /\ last.act = "export_pdf"
  /\ last.arg = Some("unwritable")
  /\ last.msgs = <<"Failed to export report as PDF">>
  /\ ~IsNone(df)

\* C10: the condition of a filter row compares its column, with its
\* operator, against a number equal to the value if the value parses as a
\* float, and against the value as a string otherwise.
C10_NumericOrString ==
  (last.act = "get_filter" /\ ~IsNone(last.arg)) =>
    LET fr == filter_rows[1]
        val == strip(fr.val)
        cond == last.arg[1]
        lit == ParseLiteral(cond.lit)
    IN /\ cond.col = fr.col
       /\ cond.op = fr.op
       /\ IF FloatParses(val)
          THEN lit.kind = "num" /\ lit.v = (IF float(val).neg THEN 0 - float(val).fp
                                            ELSE float(val).fp)
          ELSE lit.kind = "str" /\ lit.s = val

\* The dataset is sales.csv and the one filter row reads amount > 15.
AmountOver15 ==
  /\ original_df = Some(SalesTable)
  /\ Len(filter_rows) = 1
  /\ filter_rows[1].col = "amount"
  /\ filter_rows[1].op = ">"
  /\ strip(filter_rows[1].val) = <<"1", "5">>

\* The cells of the rows of a table, row by row.
Cells(t) == [k \in DOMAIN t.rows |-> [j \in DOMAIN t.cols |-> t.rows[k].c[j].n]]

\* C11: with sales.csv loaded (id, amount; (1,10),(2,20),(3,30)) and the
\* one filter row amount > 15 applied, the view is the rows (2,20),(3,30)
\* in that order, and a report generated next shows 2 records and, for
\* amount, min 20, max 30 and mean 25.
C11_EndToEnd ==
  [][(alive /\ AmountOver15 /\ last.act = "apply" /\ last'.act = "report") =>
       /\ df[1].cols = <<"id", "amount">>
       /\ Cells(df[1]) = <<(<<2, 20>>), (<<3, 30>>)>>
       /\ report_text'.head = "Report Summary:"
       /\ LET body == report_text'.body[1]
          IN /\ body.total = 2
             /\ \E k \in DOMAIN body.stats :
                  /\ body.stats[k].col = "amount"
                  /\ body.stats[k].min = Some(20)
                  /\ body.stats[k].max = Some(30)
                  /\ body.stats[k].mean = Some(25 * FP)]_vars

\* The report was generated right after amount > 15 was applied to sales.csv.
C11_Witness ==
  /\ alive /\ AmountOver15
  /\ last.act = "report"
  /\ report_df = df
  /\ Len(df[1].rows) = 2
  /\ ~IsNone(report_text.body)
  /\ report_text.body[1].total = 2

\* The last action showed or wrote a report summary.
Reported ==
  \/ last.act = "report" /\ ~IsNone(report_text.body)
  \/ last.act \in {"export_pdf", "export_excel"} /\ ~IsNone(last.wrote)

\* The summary it showed or wrote: the record count, the column list and
\* the columns the statistics are about.
Shown ==
  LET sm == IF last.act = "report" THEN report_text.body[1]
            ELSE IF last.act = "export_pdf" THEN last.wrote[1]
            ELSE last.wrote[1].summary
  IN [total |-> sm.total, columns |-> sm.columns,
      described |-> [k \in DOMAIN sm.stats |-> sm.stats[k].col],
      counts |-> [k \in DOMAIN sm.stats |-> sm.stats[k].count]]

\* C12: a report shown or written for a loaded dataset gives the number of
\* rows of the view, the columns of the view in order, and statistics for
\* exactly its numeric columns, each over its present values; without a
\* numeric column there are no statistics, and the on-screen report then
\* (and only then) carries the no-numeric-columns notice.
C12_SummaryOfView ==
  Reported =>
    LET v == df[1]
        numeric == SelectSeq(v.cols, LAMBDA c : v.dtype[ColIndex(v, c)] \in {"int", "float"})
    IN /\ Shown.total = Len(v.rows)
       /\ Shown.columns = v.cols
       /\ Shown.described = numeric
       /\ \A k \in DOMAIN numeric :
            Shown.counts[k] =
              Cardinality({r \in DOMAIN v.rows :
                             v.rows[r].c[ColIndex(v, numeric[k])].t # "nan"})
       /\ last.act = "report" => (report_text.body[1].notice <=> numeric = <<>>)

\* The present values of a column of t, in row order.
Cleaned(t, col) ==
  LET present == SelectSeq(t.rows, LAMBDA r : r.c[ColIndex(t, col)].t # "nan")
  IN [k \in DOMAIN present |-> present[k].c[ColIndex(t, col)].n]

\* The last action was an XY chart request with both columns chosen.
XYRequested ==
  /\ alive
  /\ last.act = "chart"
  /\ last.arg[1].mode = "XY Chart"
  /\ last.arg[1].x_col # NONE_COL
  /\ last.arg[1].y_col # NONE_COL

C14_FailedChartKeepsFigure ==
  [][(last'.act = "chart" /\ last'.msgs # <<>> /\ figure.kind # "") =>
       figure' = figure]_vars

\* The rows of o that pass the condition of every active row of frs.
PassingRows(o, frs) ==
  SelectSeq(o.rows, LAMBDA row : \A k \in DOMAIN frs :
                       Active(frs[k]) => RowPasses(o, row, get_filter(frs[k])[1]))

\* C15: only a load or a sheet selection changes the original; an apply
\* that raised nothing makes the view the rows of the original passing the
\* filter rows, whatever the view was before; and an apply right after an
\* apply leaves the view as it is.
C15_ApplyFromOriginal ==
  [][/\ original_df' # original_df => last'.act \in {"load", "sheet"}
     /\ (alive' /\ last'.act = "apply" /\ last'.msgs = <<>> /\ ~IsNone(original_df)) =>
          /\ df'[1].cols = original_df[1].cols
          /\ df'[1].rows = PassingRows(original_df[1], filter_rows)
     /\ (alive' /\ last.act = "apply" /\ last'.act = "apply"
           /\ last.msgs = <<>> /\ last'.msgs = <<>>) => df' = df]_vars

\* An apply over a narrowed view gave a view with more rows than the view
\* had, and still fewer than the original.
C15_Witness ==
  /\ alive /\ last.act = "apply" /\ last.msgs = <<>>
  /\ last.arg[1].narrowed
  /\ last.arg[1].size < Len(df[1].rows)
  /\ Len(df[1].rows) < Len(original_df[1].rows)

\* C16: a load or sheet selection that went through ran one handler only:
\* it sent exactly one change notification and showed no message of
\* another handler.
C16_OneHandlerPerAction ==
  (alive /\ LoadWentThrough) => last.emitted = 1 /\ last.msgs = <<>>

\* C17: while no dataset is loaded, an action other than a load raises
\* nothing that reaches the event loop and sends no change notification;
\* the view stays unset and there is no filter row.
C17_NothingLoaded ==
  (IsNone(original_df) /\ last.act \notin {"start", "source", "load", "sheet"}) =>
    /\ alive
    /\ last.uncaught = 0
    /\ last.emitted = 0
    /\ IsNone(df)
    /\ filter_rows = <<>>

====
